---- MODULE Spec2Model ----
(***************************************************************************)
(* Model of fswitcher (src/src/main.rs, src/src/utils/keys.rs): the select *)
(* loop of main, handle_keyboard_event and handle_dbus_message.            *)
(*                                                                         *)
(* Rust Option values are modelled as sequences: None is <<>> and Some(v)  *)
(* is <<v>>.  HashMap::get returns an Option of a reference to the stored  *)
(* value, so for b_bindings (HashMap<u32, Option<String>>) it returns a    *)
(* nested Option: <<>> when the key is missing, << <<>> >> when the key is *)
(* present with value None, << <<p>> >> when the key holds Some(p).        *)
(***************************************************************************)
EXTENDS Integers, Sequences, FiniteSets, TLC

VARIABLES
    keyboard_states,  \* main.rs:108  HashMap<u32, KeyboardState>
    b_bindings,       \* main.rs:110  HashMap<u32, Option<String>>
    status,           \* "running", "error" (main returned Err), "panicked"
    pc,               \* "select": waiting in tokio::select!; "object", "window", "focus": the
                      \* body of that arm; "dispatch": input.dispatch() of main.rs:121; "drain":
                      \* the for loop of main.rs:122; "key": its body
    cur,              \* Some(dispatch result, stream item or event) about to be handled, or None
    notifications,    \* console lines of main.rs:163 and main.rs:174
    accepted,         \* paths of the signals that reached main.rs:201
    held              \* per physical device, the tracked modifier keys held down, as of the
                      \* events handled so far

vars == <<keyboard_states, b_bindings, status, pc, cur, notifications, accepted, held>>

----------------------------------------------------------------------------
(* Bounds *)

MaxAccepted == 3   \* accepted focus signals per run
MaxNotes == 3      \* notification lines per run
MaxHeld == 2       \* tracked modifier keys held down at the same time, over all keyboards

----------------------------------------------------------------------------
(* Option *)

None == <<>>
Some(v) == <<v>>
is_some(o) == o # <<>>
is_none(o) == o = <<>>
unwrap(o) == o[1]

----------------------------------------------------------------------------
(* Program constants *)

LeftCtrl == 29
RightCtrl == 97
KeyA == LeftCtrl + 1  \* a key code that is not tracked (30, KEY_A)

PRIMARY == 1
SECONDARY == 8195

IfaceObject == "org.a11y.atspi.Event.Object"
IfaceWindow == "org.a11y.atspi.Event.Window"
IfaceFocus == "org.a11y.atspi.Event.Focus"

----------------------------------------------------------------------------
(* Environment: physical keyboards, bus messages *)

\* Physical devices by name; two of them share a product id.
Devices == {"builtin", "usbA", "usbB"}
id_product(dev) == IF dev = "builtin" THEN 1 ELSE 8195

KeyCodes == {LeftCtrl, RightCtrl, KeyA}
KeyStates == {"Pressed", "Released"}

KeyboardEvents == [kind : {"Keyboard"}, device : Devices, key : KeyCodes, key_state : KeyStates]
PointerEvents == [kind : {"Pointer"}, device : {"builtin"}]
LibinputEvents == KeyboardEvents \cup PointerEvents

Members == {"Focis", "Focus", "Activate", "activate", "Deactivate"}
Paths == {"/win/7", "/app/win1", "/app/win2"}

Option(S) == {None} \cup {Some(x) : x \in S}

\* Messages a subscription with an interface match rule can yield.
Messages(iface) == [interface : {Some(iface)}, member : Option(Members), path : Option(Paths)]

----------------------------------------------------------------------------
(* HashMap *)

Get(map, k) == IF k \in DOMAIN map THEN Some(map[k]) ELSE None
Insert(map, k, v) == [x \in (DOMAIN map) \cup {k} |-> IF x = k THEN v ELSE map[x]]

----------------------------------------------------------------------------
(* utils/keys.rs *)

key(k) == k

----------------------------------------------------------------------------
(* handle_dbus_message *)

\* The comparison of main.rs:197-198 left out.
is_focus_event_no_lowercase(interface, member) ==
    \/ (interface = IfaceFocus /\ member = "Focis")
    \/ (interface = IfaceWindow /\ member = "Activate")

\* Every member of the Window interface taken for an activation.
is_focus_event_any_window(interface, member) ==
    \/ (interface = IfaceFocus /\ member = "Focis")
    \/ interface = IfaceWindow

is_focus_event(interface, member) ==
    \/ (interface = IfaceFocus /\ member = "Focis")
    \/ (interface = IfaceWindow /\ member = "Activate")
    \/ (interface = IfaceWindow /\ member = "activate")

\* The two inserts of main.rs:205-206 in the other order.
UpdateBindings_swapped(b, path) ==
    Insert(Insert(b, PRIMARY, Some(path)), SECONDARY, Some(path))

\* The key of main.rs:205 mistyped.
UpdateBindings_wrong_key(b, path) ==
    Insert(Insert(b, SECONDARY + 1, unwrap(Get(b, PRIMARY))), PRIMARY, Some(path))

\* The shift of main.rs:205 left out.
UpdateBindings_no_shift(b, path) ==
    Insert(b, PRIMARY, Some(path))

\* The "push-down queue" of main.rs:204-211.
UpdateBindings(b, path) ==
    IF is_some(Get(b, PRIMARY)) /\ is_some(Get(b, SECONDARY))
    THEN Insert(Insert(b, SECONDARY, unwrap(Get(b, PRIMARY))), PRIMARY, Some(path))
    ELSE IF is_none(Get(b, PRIMARY)) /\ is_none(Get(b, SECONDARY))
         THEN Insert(b, SECONDARY, Some(path))
         ELSE Insert(b, PRIMARY, Some(path))

\* The unwrap() calls of main.rs:184-185 panic on a missing member or path.
Panics(msg) == is_none(msg.member) \/ is_none(msg.path)

\* main.rs:187-200: the if let pattern and is_focus_event.
Matches(msg) ==
    /\ is_some(msg.member) /\ is_some(msg.interface) /\ is_some(msg.path)
    /\ is_focus_event(unwrap(msg.interface), unwrap(msg.member))

\* A "Deactivate" signal handled by emptying the primary slot instead of being ignored.
handle_dbus_message_deactivate_clears(msg) ==
    IF Panics(msg)
    THEN /\ status' = "panicked"
         /\ UNCHANGED <<b_bindings, accepted>>
    ELSE IF Matches(msg)
         THEN /\ accepted' = Append(accepted, unwrap(msg.path))
              /\ b_bindings' = UpdateBindings(b_bindings, unwrap(msg.path))
              /\ UNCHANGED status
         ELSE /\ b_bindings' = IF msg.member = Some("Deactivate")
                               THEN Insert(b_bindings, PRIMARY, None)
                               ELSE b_bindings
              /\ UNCHANGED <<accepted, status>>

handle_dbus_message(msg) ==
    IF Panics(msg)
    THEN /\ status' = "panicked"
         /\ UNCHANGED <<b_bindings, accepted>>
    ELSE IF Matches(msg)
         THEN /\ accepted' = Append(accepted, unwrap(msg.path))
              /\ b_bindings' = UpdateBindings(b_bindings, unwrap(msg.path))
              /\ UNCHANGED status
         ELSE UNCHANGED <<b_bindings, accepted, status>>

----------------------------------------------------------------------------
(* handle_keyboard_event *)

KeyboardState_new == [ctrl_pressed |-> FALSE, last_device_name |-> ""]

\* Every key taken for a Ctrl key.
is_ctrl_any(k) == k = k

is_ctrl(k) == k = key(LeftCtrl) \/ k = key(RightCtrl)

\* A map that keeps only the entry of the device of the event.
EntryOrInsert_fresh(states, device_id) ==
    [d \in {device_id} |-> IF device_id \in DOMAIN states THEN states[device_id]
                                                          ELSE KeyboardState_new]

\* states.entry(device_id).or_insert_with(KeyboardState::new)
EntryOrInsert(states, device_id) ==
    IF device_id \in DOMAIN states THEN states ELSE Insert(states, device_id, KeyboardState_new)

\* main.rs:159 without the test of state.ctrl_pressed.
Engages_no_debounce(state, k, key_state) == key_state = "Pressed" /\ is_ctrl(k)

\* main.rs:159 and main.rs:172
Engages(state, k, key_state) == key_state = "Pressed" /\ is_ctrl(k) /\ ~state.ctrl_pressed
Releases(state, k, key_state) == key_state = "Released" /\ is_ctrl(k) /\ state.ctrl_pressed

\* The entry of the device after the match of main.rs:157-177.
KeyTransition(state, name, k, key_state) ==
    IF Engages(state, k, key_state)
    THEN [ctrl_pressed |-> TRUE, last_device_name |-> name]
    ELSE IF Releases(state, k, key_state)
         THEN [state EXCEPT !.ctrl_pressed = FALSE]
         ELSE state

\* The release line printed with device.name() of the event.
KeyNotification_event_name(state, name, device_id, k, key_state) ==
    IF Engages(state, k, key_state)
    THEN <<[kind |-> "pressed", device_id |-> device_id, name |-> name, event_device |-> name]>>
    ELSE IF Releases(state, k, key_state)
         THEN <<[kind |-> "released", device_id |-> device_id, name |-> name,
                 event_device |-> name]>>
         ELSE <<>>

\* The line printed by the match, if any (main.rs:163 and main.rs:174): name is the device
\* name in the line, event_device the device the event came from.
KeyNotification(state, name, device_id, k, key_state) ==
    IF Engages(state, k, key_state)
    THEN <<[kind |-> "pressed", device_id |-> device_id, name |-> name, event_device |-> name]>>
    ELSE IF Releases(state, k, key_state)
         THEN <<[kind |-> "released", device_id |-> device_id, name |-> state.last_device_name,
                 event_device |-> name]>>
         ELSE <<>>

handle_keyboard_event(event) ==
    IF event.kind = "Keyboard"
    THEN LET device_id == id_product(event.device)
             states == EntryOrInsert(keyboard_states, device_id)
             state == states[device_id]
         IN  /\ keyboard_states' = [states EXCEPT ![device_id] =
                     KeyTransition(state, event.device, event.key, event.key_state)]
             /\ notifications' = notifications \o
                     KeyNotification(state, event.device, device_id, event.key, event.key_state)
    ELSE UNCHANGED <<keyboard_states, notifications>>

----------------------------------------------------------------------------
(* The keyboards *)

HeldKeys(h) == {<<d, k>> \in Devices \X {LeftCtrl, RightCtrl} : k \in h[d]}

\* The keys a physical device holds down after the event.
HeldAfter(h, event) ==
    IF event.kind # "Keyboard" THEN h
    ELSE IF event.key \notin {LeftCtrl, RightCtrl} THEN h
    ELSE IF event.key_state = "Pressed"
         THEN [h EXCEPT ![event.device] = @ \cup {event.key}]
         ELSE [h EXCEPT ![event.device] = @ \ {event.key}]

\* A keyboard reports a press of a key that is up and a release of a key that is down.
Possible(h, event) ==
    IF event.kind # "Keyboard" THEN TRUE
    ELSE IF event.key \notin {LeftCtrl, RightCtrl} THEN TRUE
    ELSE IF event.key_state = "Pressed"
         THEN event.key \notin h[event.device] /\ Cardinality(HeldKeys(h)) < MaxHeld
    ELSE event.key \in h[event.device]

\* Whether handling the event prints a notification line.
Notifies(event) ==
    /\ event.kind = "Keyboard"
    /\ LET device_id == id_product(event.device)
           state == EntryOrInsert(keyboard_states, device_id)[device_id]
       IN  KeyNotification(state, event.device, device_id, event.key, event.key_state) # <<>>

----------------------------------------------------------------------------
(* main *)

Init ==
    /\ keyboard_states = <<>>
    /\ b_bindings = [k \in {PRIMARY, SECONDARY} |-> None]
    /\ status = "running"
    /\ pc = "select"
    /\ cur = None
    /\ notifications = <<>>
    /\ accepted = <<>>
    /\ held = [d \in Devices |-> {}]

\* The arms polled again while a handler is still running.
Selecting_preemptive == status = "running"

Selecting == status = "running" /\ pc = "select"

\* io::Result<()> of input.dispatch(), Result<Message, zbus::Error> items of a MessageStream.
Ok(v) == [ok |-> TRUE, val |-> v]
Err == [ok |-> FALSE]

\* main.rs:117-119: the descriptor is readable, the arm is taken; dispatch is about to return
\* Ok(()) or an error.
InputReadable ==
    /\ Selecting
    /\ \E result \in {Ok(<<>>), Err} : cur' = Some(result)
    /\ pc' = "dispatch"
    /\ UNCHANGED <<keyboard_states, b_bindings, status, notifications, accepted, held>>

\* The result of input.dispatch() discarded instead of propagated with "?".
InputDispatch_ignore_err ==
    /\ status = "running" /\ pc = "dispatch"
    /\ pc' = "drain"
    /\ cur' = None
    /\ UNCHANGED <<keyboard_states, b_bindings, status, notifications, accepted, held>>

\* main.rs:121: "input.dispatch()?" returns the error from main, or the for loop starts.
InputDispatch ==
    /\ status = "running" /\ pc = "dispatch"
    /\ IF unwrap(cur).ok
       THEN pc' = "drain" /\ UNCHANGED status
       ELSE status' = "error" /\ UNCHANGED pc
    /\ cur' = None
    /\ UNCHANGED <<keyboard_states, b_bindings, notifications, accepted, held>>

\* main.rs:122: the iterator yields the next available event.
DrainNext ==
    /\ status = "running" /\ pc = "drain"
    /\ \E event \in LibinputEvents :
        /\ Possible(held, event)
        /\ Notifies(event) => Len(notifications) < MaxNotes
        /\ cur' = Some(event)
    /\ pc' = "key"
    /\ UNCHANGED <<keyboard_states, b_bindings, status, notifications, accepted, held>>

\* The loop body also given the binding table, clearing the slot of the event's device.
HandleKeyboardEvent_feeds_table ==
    /\ status = "running" /\ pc = "key"
    /\ handle_keyboard_event(unwrap(cur))
    /\ held' = HeldAfter(held, unwrap(cur))
    /\ b_bindings' = Insert(b_bindings, id_product(unwrap(cur).device), None)
    /\ cur' = None
    /\ pc' = "drain"
    /\ UNCHANGED <<status, accepted>>

\* main.rs:123: the loop body.
HandleKeyboardEvent ==
    /\ status = "running" /\ pc = "key"
    /\ handle_keyboard_event(unwrap(cur))
    /\ held' = HeldAfter(held, unwrap(cur))
    /\ cur' = None
    /\ pc' = "drain"
    /\ UNCHANGED <<b_bindings, status, accepted>>

\* main.rs:122-125: the iterator yields None; back to select.
DrainDone ==
    /\ status = "running" /\ pc = "drain"
    /\ pc' = "select"
    /\ UNCHANGED <<keyboard_states, b_bindings, status, cur, notifications, accepted, held>>

\* A subscription yields Some(item); its arm's body is about to run.
Yield(src, item) ==
    /\ Selecting
    /\ (item.ok /\ Matches(item.val) /\ ~Panics(item.val)) => Len(accepted) < MaxAccepted
    /\ cur' = Some(item)
    /\ pc' = src
    /\ UNCHANGED <<keyboard_states, b_bindings, status, notifications, accepted, held>>

\* main.rs:127
StreamObject == \E item \in {Err} \cup {Ok(m) : m \in Messages(IfaceObject)} : Yield("object", item)

\* main.rs:133
StreamWindow == \E item \in {Err} \cup {Ok(m) : m \in Messages(IfaceWindow)} : Yield("window", item)

\* main.rs:139
StreamFocus == \E item \in {Err} \cup {Ok(m) : m \in Messages(IfaceFocus)} : Yield("focus", item)

\* main.rs:128-130: the call is commented out.
ArmObject ==
    /\ status = "running" /\ pc = "object"
    /\ cur' = None
    /\ pc' = "select"
    /\ UNCHANGED <<keyboard_states, b_bindings, status, notifications, accepted, held>>

\* The item unwrapped with "?" instead of matched with "if let Ok".
Arm_err_fatal(src) ==
    /\ status = "running" /\ pc = src
    /\ IF unwrap(cur).ok
       THEN handle_dbus_message(unwrap(cur).val)
       ELSE status' = "error" /\ UNCHANGED <<b_bindings, accepted>>
    /\ cur' = None
    /\ pc' = "select"
    /\ UNCHANGED <<keyboard_states, notifications, held>>

\* "if let Ok(_msg) = msg { handle_dbus_message(&_msg, &mut b_bindings); }"
Arm(src) ==
    /\ status = "running" /\ pc = src
    /\ IF unwrap(cur).ok
       THEN handle_dbus_message(unwrap(cur).val)
       ELSE UNCHANGED <<b_bindings, accepted, status>>
    /\ cur' = None
    /\ pc' = "select"
    /\ UNCHANGED <<keyboard_states, notifications, held>>

\* main.rs:134-136
ArmWindow == Arm("window")

\* main.rs:140-142
ArmFocus == Arm("focus")

Next ==
    \/ InputReadable
    \/ InputDispatch
    \/ DrainNext
    \/ HandleKeyboardEvent
    \/ DrainDone
    \/ StreamObject
    \/ StreamWindow
    \/ StreamFocus
    \/ ArmObject
    \/ ArmWindow
    \/ ArmFocus

Spec == Init /\ [][Next]_vars

----------------------------------------------------------------------------
(* Properties *)

\* An arm is about to call handle_dbus_message on msg.
Handling == status = "running" /\ pc \in {"window", "focus"} /\ cur # None /\ unwrap(cur).ok
msg == unwrap(cur).val

\* The message is a focus signal that the documentation says is accepted.
Relevant(m) ==
    /\ m.interface # None /\ m.member # None
    /\ \/ unwrap(m.interface) = "org.a11y.atspi.Event.Focus" /\ unwrap(m.member) = "Focis"
       \/ unwrap(m.interface) = "org.a11y.atspi.Event.Window"
            /\ unwrap(m.member) \in {"Activate", "activate"}

\* The step applies an accepted focus signal with path p.
Applies(p) == Handling /\ msg.path = <<p>> /\ Relevant(msg)

Slots == {1, 8195}
Occupied == {k \in Slots : k \in DOMAIN b_bindings /\ b_bindings[k] # None}

\* C1: an accepted focus signal with path p applied while both slots are empty
\* leaves secondary (8195) = p and primary (1) still absent.
C1_Bootstrap ==
    [][\A p \in Paths : (Applies(p) /\ Occupied = {}) =>
            (b_bindings'[8195] = <<p>> /\ b_bindings'[1] = None)]_vars

\* C2: an accepted focus signal with path p applied while exactly one slot holds
\* a value sets primary (1) to p and leaves secondary (8195) as it was.
C2_SingleOccupancy ==
    [][\A p \in Paths : (Applies(p) /\ Cardinality(Occupied) = 1) =>
            (b_bindings'[1] = <<p>> /\ b_bindings'[8195] = b_bindings[8195])]_vars

\* C3: an accepted focus signal with path p applied while both slots hold a value
\* moves the old primary value to secondary, sets primary to p, and the table
\* keeps nothing else, so the old secondary value is gone unless it equals one
\* of those two.
C3_Shift ==
    [][\A p \in Paths : (Applies(p) /\ Occupied = Slots) =>
            /\ b_bindings'[8195] = b_bindings[1]
            /\ b_bindings'[1] = <<p>>
            /\ DOMAIN b_bindings' = Slots
            /\ \A k \in DOMAIN b_bindings' :
                 b_bindings'[k] = b_bindings[8195] => b_bindings[8195] \in {b_bindings[1], <<p>>}]_vars

\* Three signals have been accepted, the third one while both slots held a value,
\* and the value that was in secondary before it (the first path) is gone.
C3_Witness ==
    /\ pc = "select" /\ Len(accepted) = 3
    /\ accepted[1] \notin {accepted[2], accepted[3]}
    /\ b_bindings[1] = <<accepted[3]>> /\ b_bindings[8195] = <<accepted[2]>>

Distinct(seq) == \A i, j \in 1..Len(seq) : i # j => seq[i] # seq[j]

\* C4: from the initial table, accepted signals with distinct paths A, B, C give
\* the (primary, secondary) tables (absent, A), then (B, A), then (C, B).
C4_BranchCoverage ==
    (pc = "select" /\ Distinct(accepted)) =>
        /\ Len(accepted) = 1 => (b_bindings[1] = None /\ b_bindings[8195] = <<accepted[1]>>)
        /\ Len(accepted) = 2 => (b_bindings[1] = <<accepted[2]>> /\ b_bindings[8195] = <<accepted[1]>>)
        /\ Len(accepted) = 3 => (b_bindings[1] = <<accepted[3]>> /\ b_bindings[8195] = <<accepted[2]>>)

FocisWin7 == [interface |-> <<"org.a11y.atspi.Event.Focus">>, member |-> <<"Focis">>,
              path |-> <<"/win/7">>]

\* C5: the Focus-interface message with member "Focis" and path "/win/7",
\* delivered three times to an initially empty table, gives (absent, "/win/7"),
\* then ("/win/7", "/win/7"), then ("/win/7", "/win/7").
C5_EndToEnd ==
    [][(Handling /\ pc = "focus" /\ msg = FocisWin7
            /\ \A i \in 1..Len(accepted) : accepted[i] = "/win/7") =>
         /\ Len(accepted) = 0 => (b_bindings'[1] = None /\ b_bindings'[8195] = <<"/win/7">>)
         /\ Len(accepted) \in {1, 2} =>
                (b_bindings'[1] = <<"/win/7">> /\ b_bindings'[8195] = <<"/win/7">>)]_vars

\* C6: the table always has exactly the slots 1 and 8195, and each slot is absent
\* or holds the path of a signal accepted earlier in the run.
C6_TwoSlots ==
    /\ DOMAIN b_bindings = {1, 8195}
    /\ \A k \in DOMAIN b_bindings :
         \/ b_bindings[k] = None
         \/ \E i \in 1..Len(accepted) : b_bindings[k] = <<accepted[i]>>

\* Both slots hold accepted paths while a message that is not a focus signal
\* arrives with a path that was never accepted.
C6_Witness ==
    /\ Handling /\ ~Relevant(msg) /\ msg.path # None
    /\ Occupied = Slots
    /\ \A i \in 1..Len(accepted) : accepted[i] # unwrap(msg.path)

\* C7: a message is accepted iff it is Focus "Focis" or Window "Activate" or
\* "activate"; an accepted message hands its own path to the binding table, and
\* every other message leaves the table alone.
C7_Classifier ==
    [][(Handling /\ msg.member # None /\ msg.path # None) =>
         /\ (accepted' # accepted) <=> Relevant(msg)
         /\ Relevant(msg) =>
                /\ accepted' = Append(accepted, unwrap(msg.path))
                /\ \E k \in Slots : b_bindings'[k] = msg.path
         /\ ~Relevant(msg) => b_bindings' = b_bindings]_vars

\* A focus signal for "/app/win1" has been accepted and its path is
\* in the table.
C7_Witness ==
    /\ pc = "select" /\ accepted = <<"/app/win1">>
    /\ \E k \in Slots : b_bindings[k] = <<"/app/win1">>

DeviceIds == {id_product(d) : d \in Devices}

\* The positions of the notifications of device id d.
NotesOf(d) == {i \in 1..Len(notifications) : notifications[i].device_id = d}

\* C8: the notifications of each device alternate engaged, released, engaged, ...
\* starting with engaged.
C8_Alternation ==
    \A d \in DeviceIds : \A i \in NotesOf(d) :
        LET before == Cardinality({j \in NotesOf(d) : j < i})
        IN  notifications[i].kind = (IF before % 2 = 0 THEN "pressed" ELSE "released")

\* A device has notified engaged, released, engaged and then saw a second
\* modifier press with no release in between.
C8_Witness ==
    \E d \in DeviceIds :
        /\ pc = "drain"
        /\ Cardinality(NotesOf(d)) = 3
        /\ Cardinality({dk \in HeldKeys(held) : id_product(dk[1]) = d}) = 2

\* C9: the modifier_engaged flag of a device is true exactly while one of the
\* keys 29 and 97 is held down on it (checked for the keyboards that do not
\* share their product id).
C9_EngagedWhileHeld ==
    \A dev \in Devices :
        (\A other \in Devices : id_product(other) = id_product(dev) => other = dev) =>
            LET d == id_product(dev)
                engaged == d \in DOMAIN keyboard_states /\ keyboard_states[d].ctrl_pressed
            IN  engaged <=> (held[dev] \cap {29, 97} # {})

\* C10: an event of a key other than 29 and 97 prints no notification and leaves
\* the flag and the stored name of every device as they were; a device seen for
\* the first time gets the initial entry.
C10_NonModifier ==
    [][(status = "running" /\ pc = "key" /\ unwrap(cur).kind = "Keyboard"
            /\ unwrap(cur).key \notin {29, 97}) =>
         /\ notifications' = notifications
         /\ \A d \in DOMAIN keyboard_states :
                d \in DOMAIN keyboard_states' /\ keyboard_states'[d] = keyboard_states[d]
         /\ \A d \in DOMAIN keyboard_states' \ DOMAIN keyboard_states :
                keyboard_states'[d] = [ctrl_pressed |-> FALSE, last_device_name |-> ""]]_vars

\* Device 1 has only seen other keys (its stored name is still empty, which no
\* Ctrl event leaves behind) while device 8195 has its modifier engaged.
C10_Witness ==
    /\ pc = "drain"
    /\ 1 \in DOMAIN keyboard_states /\ keyboard_states[1].last_device_name = ""
    /\ 8195 \in DOMAIN keyboard_states /\ keyboard_states[8195].ctrl_pressed

\* The body of a bus arm is about to run on the item in cur.
InBusArm == status = "running" /\ pc \in {"object", "window", "focus"}

\* The loop body is about to run on the event in cur.
InKeyHandler == status = "running" /\ pc = "key"

\* C11: handling a device event leaves both binding slots as they were, and the
\* body of a bus arm leaves the keyboard state of every device and the
\* notifications as they were.
C11_Frame ==
    [][/\ InKeyHandler => b_bindings' = b_bindings
       /\ InBusArm => (keyboard_states' = keyboard_states /\ notifications' = notifications)]_vars

\* A keyboard has just notified its release while both slots hold a path, and a
\* device still has its modifier engaged.
C11_Witness ==
    /\ pc = "drain" /\ Occupied = Slots
    /\ Len(notifications) = 3 /\ notifications[3].kind = "released"
    /\ \E d \in DOMAIN keyboard_states : keyboard_states[d].ctrl_pressed

\* C12: a decode failure on any of the three subscriptions changes neither the
\* binding table nor the keyboard state, leaves the loop running and back in
\* select, where every source can be taken again.
C12_DecodeFailureDropped ==
    /\ [][(InBusArm /\ ~unwrap(cur).ok) =>
            /\ b_bindings' = b_bindings /\ accepted' = accepted
            /\ keyboard_states' = keyboard_states /\ notifications' = notifications
            /\ status' = "running" /\ pc' = "select"]_vars
    /\ [](Selecting => /\ ENABLED InputReadable
                       /\ ENABLED StreamObject
                       /\ ENABLED StreamWindow
                       /\ ENABLED StreamFocus)

\* A decode failure of the focus subscription is about to be dropped while the
\* table holds two paths and a modifier is engaged.
C12_Witness ==
    /\ InBusArm /\ pc = "focus" /\ ~unwrap(cur).ok
    /\ Occupied = Slots
    /\ \E d \in DOMAIN keyboard_states : keyboard_states[d].ctrl_pressed

\* C13: a dispatch error ends the loop with an error without handling a device
\* event, and after it nothing changes the keyboard state or the binding table.
C13_DispatchErrorFatal ==
    /\ [][(status = "running" /\ pc = "dispatch" /\ ~unwrap(cur).ok) =>
            /\ status' = "error" /\ pc' \notin {"drain", "key"}
            /\ keyboard_states' = keyboard_states /\ notifications' = notifications
            /\ b_bindings' = b_bindings]_vars
    /\ [][status = "error" =>
            /\ status' = "error"
            /\ keyboard_states' = keyboard_states /\ notifications' = notifications
            /\ b_bindings' = b_bindings /\ accepted' = accepted]_vars

\* The loop has ended with the dispatch error after signals and key events were
\* handled.
C13_Witness ==
    /\ status = "error" /\ pc = "dispatch"
    /\ Occupied # {} /\ notifications # <<>>

\* C14: handling a decoded bus message never fails and never ends the loop,
\* whichever header fields are present; a message that does not match has no
\* effect.
C14_HandlerTotal ==
    [][Handling =>
         /\ status' = "running" /\ pc' = "select"
         /\ ~Relevant(msg) => (b_bindings' = b_bindings /\ accepted' = accepted)]_vars

\* C15: a message that is not an accepted focus signal (Window "Deactivate", an
\* Object-interface signal, a Focus-interface signal with another member) leaves
\* both binding slots as they were.
C15_RejectedNoEffect ==
    [][(InBusArm /\ unwrap(cur).ok /\ (pc = "object" \/ ~Relevant(msg))) =>
            (b_bindings' = b_bindings /\ accepted' = accepted)]_vars

\* A Window "Deactivate" signal is about to be handled while both slots hold
\* paths other than its own.
C15_Witness ==
    /\ Handling /\ pc = "window" /\ msg.member = <<"Deactivate">> /\ msg.path # None
    /\ Occupied = Slots
    /\ \A k \in Slots : b_bindings[k] # msg.path

InFlight == {"dispatch", "key", "object", "window", "focus"}

\* C16: one item is taken at a time and the step after taking it is its handler:
\* no bus message is taken during the drain of device events and no device
\* event during a bus arm; the notifications and the accepted signals are only
\* appended to, in the order handled; in select no source has priority.
C16_Ordering ==
    /\ [](status = "running" => ((cur # None) <=> (pc \in InFlight)))
    /\ [][(status = "running" /\ cur # None) => cur' = None]_vars
    /\ [][(status = "running" /\ pc \in {"drain", "key"}) =>
            /\ pc' \in {"drain", "key", "select"}
            /\ b_bindings' = b_bindings /\ accepted' = accepted]_vars
    /\ [][/\ Len(notifications') >= Len(notifications)
          /\ SubSeq(notifications', 1, Len(notifications)) = notifications
          /\ Len(accepted') >= Len(accepted)
          /\ SubSeq(accepted', 1, Len(accepted)) = accepted]_vars
    /\ [](Selecting => /\ ENABLED StreamWindow
                       /\ ENABLED StreamFocus
                       /\ ENABLED InputReadable)

\* In one drain, a first event has printed its line and the second event of
\* the batch is in flight, with two signals applied before in their order.
C16_Witness ==
    /\ pc = "key" /\ cur # None
    /\ Len(notifications) = 1 /\ Len(accepted) = 2
    /\ accepted[1] # accepted[2]
    /\ b_bindings[1] = <<accepted[2]>>

\* The product id of the device of an event, as the documentation gives it.
ProductOf(dev) == IF dev = "builtin" THEN 1 ELSE 8195

\* C17: a released notification carries the name stored at the most recent
\* engaged transition of its device id, also when the release comes from another
\* device with that id, and the stored name changes only on an engaged
\* transition.
C17_ReleasedName ==
    /\ [](\A i \in 1..Len(notifications) :
            notifications[i].kind = "released" =>
                \E j \in 1..(i - 1) :
                    /\ notifications[j].kind = "pressed"
                    /\ notifications[j].device_id = notifications[i].device_id
                    /\ \A m \in (j + 1)..(i - 1) :
                         notifications[m].device_id # notifications[i].device_id
                    /\ notifications[i].name = notifications[j].event_device)
    /\ [][\A d \in DOMAIN keyboard_states :
            keyboard_states'[d].last_device_name # keyboard_states[d].last_device_name =>
                /\ ~keyboard_states[d].ctrl_pressed /\ keyboard_states'[d].ctrl_pressed
                /\ InKeyHandler /\ unwrap(cur).key_state = "Pressed"
                /\ keyboard_states'[d].last_device_name = unwrap(cur).device]_vars

\* A release that came from one keyboard was printed with the name of the other
\* keyboard with the same product id, the one that had engaged the modifier.
C17_Witness ==
    \E i \in 1..Len(notifications) :
        /\ notifications[i].kind = "released"
        /\ notifications[i].name # notifications[i].event_device

\* C18: a key event of device id d changes or creates only the entry of d; the
\* entries of the other device ids stay as they were, a created entry starts from
\* modifier_engaged = false, and no entry is ever removed.
C18_Isolation ==
    /\ [][(InKeyHandler /\ unwrap(cur).kind = "Keyboard") =>
            LET d == ProductOf(unwrap(cur).device)
            IN  /\ DOMAIN keyboard_states' = DOMAIN keyboard_states \cup {d}
                /\ \A e \in DOMAIN keyboard_states : e # d => keyboard_states'[e] = keyboard_states[e]
                /\ d \notin DOMAIN keyboard_states =>
                      \/ keyboard_states'[d] = [ctrl_pressed |-> FALSE, last_device_name |-> ""]
                      \/ /\ unwrap(cur).key \in {29, 97} /\ unwrap(cur).key_state = "Pressed"
                         /\ keyboard_states'[d] = [ctrl_pressed |-> TRUE,
                                                   last_device_name |-> unwrap(cur).device]]_vars
    /\ [][DOMAIN keyboard_states \subseteq DOMAIN keyboard_states']_vars

\* Both device ids have an entry: 8195 engaged under the name of one of its
\* keyboards, 1 engaged and released before, untouched by the events of 8195.
C18_Witness ==
    /\ DOMAIN keyboard_states = {1, 8195}
    /\ keyboard_states[1] = [ctrl_pressed |-> FALSE, last_device_name |-> "builtin"]
    /\ keyboard_states[8195] = [ctrl_pressed |-> TRUE, last_device_name |-> "usbB"]
    /\ Len(notifications) = 3 /\ notifications[3].device_id = 8195

\* C19: after two or more accepted signals, primary (1) holds the path of the
\* most recently accepted signal and secondary (8195) the path of the one
\* accepted just before it.
C19_DepthTwoHistory ==
    Len(accepted) >= 2 =>
        /\ b_bindings[1] = <<accepted[Len(accepted)]>>
        /\ b_bindings[8195] = <<accepted[Len(accepted) - 1]>>

\* Three signals with different paths were accepted, with key events handled in
\* the same run, and the table holds the last two.
C19_Witness ==
    /\ Len(accepted) = 3 /\ Distinct(accepted)
    /\ notifications # <<>> /\ pc = "drain"
    /\ b_bindings = (1 :> <<accepted[3]>>) @@ (8195 :> <<accepted[2]>>)

\* C20: a slot that holds a value holds a value in every later state.
C20_OccupancyMonotonic ==
    [][\A k \in Slots : b_bindings[k] # None => b_bindings'[k] # None]_vars

\* Both slots hold a value, the secondary one through two shifts, and the loop
\* has since ended with an error.
C20_Witness ==
    /\ Occupied = Slots /\ Len(accepted) = 3
    /\ status = "error"

====
